---- MODULE Spec2Model ----
(***************************************************************************)
(* Model of src/main.py: the transcript generator's resolution loop, the   *)
(* enrollment merger, the course row expander, the row reconciler and the  *)
(* run logger / attacher.                                                  *)
(*                                                                         *)
(* Python strings are sequences of one-character strings, so that strip,   *)
(* split, lower, substring tests and regular-expression substitution are   *)
(* computed character by character as the code computes them.              *)
(***************************************************************************)
EXTENDS Integers, Sequences, FiniteSets, TLC

(***************************************************************************)
(* Characters and strings                                                  *)
(***************************************************************************)
UpperChars == <<"A","B","C","D","E","F","G","H","I","J","K","L","M",
                "N","O","P","Q","R","S","T","U","V","W","X","Y","Z">>
LowerChars == <<"a","b","c","d","e","f","g","h","i","j","k","l","m",
                "n","o","p","q","r","s","t","u","v","w","x","y","z">>
DigitChars == <<"0","1","2","3","4","5","6","7","8","9">>

\* the characters of the model in code-point order (str comparison order)
CodePoints == <<" ", "+", ",", "-", ".", "/">> \o DigitChars \o UpperChars
              \o <<"_">> \o LowerChars \o <<"REG", "DASH">>

Range(s) == {s[i] : i \in DOMAIN s}

IndexOf(seq, c) == CHOOSE i \in DOMAIN seq : seq[i] = c

Ord(c) == IndexOf(CodePoints, c)

IsUpper(c) == c \in Range(UpperChars)
IsLowerC(c) == c \in Range(LowerChars)
IsDigit(c) == c \in Range(DigitChars)
\* "REG" is U+00AE, "DASH" is U+2014; the only whitespace of the model is " "
IsSpace(c) == c = " "

\* str.lower() / str.upper(), per character
LowerChar(c) == IF IsUpper(c) THEN LowerChars[IndexOf(UpperChars, c)] ELSE c
UpperChar(c) == IF IsLowerC(c) THEN UpperChars[IndexOf(LowerChars, c)] ELSE c
lower(s) == [i \in DOMAIN s |-> LowerChar(s[i])]
upper(s) == [i \in DOMAIN s |-> UpperChar(s[i])]

\* str.strip(): drop leading and trailing whitespace
RECURSIVE lstrip(_)
lstrip(s) == IF s # <<>> /\ IsSpace(Head(s)) THEN lstrip(Tail(s)) ELSE s
RECURSIVE rstrip(_)
rstrip(s) == IF s # <<>> /\ IsSpace(s[Len(s)])
             THEN rstrip(SubSeq(s, 1, Len(s) - 1)) ELSE s
strip(s) == rstrip(lstrip(s))

\* str.rstrip(chars) / str.strip(chars) for one character
RECURSIVE rstripChar(_, _)
rstripChar(s, c) == IF s # <<>> /\ s[Len(s)] = c
                    THEN rstripChar(SubSeq(s, 1, Len(s) - 1), c) ELSE s
RECURSIVE lstripChar(_, _)
lstripChar(s, c) == IF s # <<>> /\ Head(s) = c THEN lstripChar(Tail(s), c) ELSE s
stripChar(s, c) == rstripChar(lstripChar(s, c), c)

\* sub in s
Contains(s, sub) ==
    \E i \in 1..(Len(s) - Len(sub) + 1) : SubSeq(s, i, i + Len(sub) - 1) = sub

\* str.split(sep) for a one-character separator: always Len >= 1
RECURSIVE SplitAcc(_, _, _)
SplitAcc(s, sep, cur) ==
    IF s = <<>> THEN <<cur>>
    ELSE IF Head(s) = sep THEN <<cur>> \o SplitAcc(Tail(s), sep, <<>>)
    ELSE SplitAcc(Tail(s), sep, Append(cur, Head(s)))
split(s, sep) == SplitAcc(s, sep, <<>>)

\* sep.join(parts)
RECURSIVE join(_, _)
join(sep, parts) ==
    IF parts = <<>> THEN <<>>
    ELSE IF Len(parts) = 1 THEN parts[1]
    ELSE parts[1] \o sep \o join(sep, Tail(parts))

\* str < str: lexicographic by code point
RECURSIVE StrLess(_, _)
StrLess(a, b) ==
    IF b = <<>> THEN FALSE
    ELSE IF a = <<>> THEN TRUE
    ELSE IF Head(a) # Head(b) THEN Ord(Head(a)) < Ord(Head(b))
    ELSE StrLess(Tail(a), Tail(b))

(***************************************************************************)
(* Record-store values: None, a string, or a list of strings; the score    *)
(* field may hold a number, kept in hundredths.                            *)
(***************************************************************************)
None == [kind |-> "none"]
Str(s) == [kind |-> "str", v |-> s]
List(l) == [kind |-> "list", v |-> l]
Num(h) == [kind |-> "num", v |-> h]

NonBlank(s) == strip(s) # <<>>

\* [x for x in l if x.strip()]
RECURSIVE NonBlankOnly(_)
NonBlankOnly(l) ==
    IF l = <<>> THEN <<>>
    ELSE (IF NonBlank(Head(l)) THEN <<Head(l)>> ELSE <<>>) \o NonBlankOnly(Tail(l))

StripEach(l) == [i \in DOMAIN l |-> strip(l[i])]

\* sget(fields, key): the value is fields[key]; str(v) of a string is v
sget(v) ==
    IF v.kind = "none" THEN <<>>
    ELSE IF v.kind = "list" THEN join(<<",", " ">>, NonBlankOnly(v.v))
    ELSE v.v

listify(v) ==
    IF v.kind = "none" THEN <<>>
    ELSE IF v.kind = "list" THEN StripEach(NonBlankOnly(v.v))
    ELSE StripEach(NonBlankOnly(split(v.v, ",")))

(***************************************************************************)
(* Semester & Grade Classifier                                             *)
(***************************************************************************)
looks_honors(name) ==
    LET t == lower(name) IN
    \/ Contains(t, <<"h","o","n","o","r","s">>)
    \/ Contains(t, <<"a","p"," ">>)
    \/ Contains(t, <<"a","p","REG">>)
    \/ Contains(t, <<"a","p"," ">>)
    \/ Contains(t, <<" ","a","p">>)

\* decimal digits of a natural number
RECURSIVE NatStr(_)
NatStr(n) == IF n < 10 THEN <<DigitChars[n + 1]>>
             ELSE NatStr(n \div 10) \o <<DigitChars[(n % 10) + 1]>>

\* QP_BASE, in tenths of a point
QP_BASE ==
    [k \in {<<"A">>, <<"A","-">>, <<"B","+">>, <<"B">>, <<"B","-">>,
            <<"C","+">>, <<"C">>, <<"C","-">>, <<"D","+">>, <<"D">>,
            <<"D","-">>, <<"F">>} |->
       CASE k = <<"A">> -> 40 [] k = <<"A","-">> -> 37
         [] k = <<"B","+">> -> 35 [] k = <<"B">> -> 30 [] k = <<"B","-">> -> 27
         [] k = <<"C","+">> -> 25 [] k = <<"C">> -> 20 [] k = <<"C","-">> -> 17
         [] k = <<"D","+">> -> 15 [] k = <<"D">> -> 10 [] k = <<"D","-">> -> 7
         [] k = <<"F">> -> 0]

\* f"{qp:.1f}".rstrip("0").rstrip(".") for qp given in tenths
FmtTenths(t) ==
    rstripChar(rstripChar(NatStr(t \div 10) \o <<".">> \o NatStr(t % 10), "0"), ".")

HonorsBonus(l, honors) == IF honors /\ l # <<"F">> THEN 10 ELSE 0

quality_points(letter, honors) ==
    LET l == upper(strip(letter)) IN
    IF l \in DOMAIN QP_BASE THEN FmtTenths(QP_BASE[l] + HonorsBonus(l, honors))
    ELSE <<>>

(***************************************************************************)
(* Grade %: numbers are kept in hundredths; NotANumber is the "" that      *)
(* _coerce_number returns.                                                 *)
(***************************************************************************)
NotANumber == -1

RECURSIVE DigitsVal(_)
DigitsVal(d) == IF d = <<>> THEN 0
                ELSE 10 * DigitsVal(SubSeq(d, 1, Len(d) - 1))
                     + (IndexOf(DigitChars, d[Len(d)]) - 1)

AllDigits(d) == \A i \in DOMAIN d : IsDigit(d[i])

\* float(s) for the numerals the record store yields here: digits with at
\* most two decimals; every other string of the model raises ValueError
PyFloat(s) ==
    LET parts == split(s, ".") IN
    IF Len(parts) = 1 /\ parts[1] # <<>> /\ AllDigits(parts[1])
      THEN 100 * DigitsVal(parts[1])
    ELSE IF /\ Len(parts) = 2 /\ parts[1] # <<>> /\ AllDigits(parts[1])
            /\ Len(parts[2]) \in {1, 2} /\ AllDigits(parts[2])
      THEN 100 * DigitsVal(parts[1])
           + (IF Len(parts[2]) = 1 THEN 10 ELSE 1) * DigitsVal(parts[2])
    ELSE NotANumber

coerce_number(v) ==
    IF v.kind = "none" THEN NotANumber
    ELSE IF v.kind = "num" THEN v.v
    ELSE IF v.kind = "list" THEN NotANumber   \* str(list) is "[...]": no float
    ELSE IF strip(v.v) = <<>> THEN NotANumber
    ELSE PyFloat(strip(v.v))

\* f"{n:.2f}" for n given in hundredths
Fmt2f(h) == NatStr(h \div 100) \o <<".">> \o NatStr((h % 100) \div 10)
            \o NatStr(h % 10)

fmt_percent(v) ==
    LET n == coerce_number(v) IN
    IF n = NotANumber THEN <<>>
    ELSE LET m == IF 0 <= n /\ n <= 100 THEN n * 100 ELSE n IN
         rstripChar(rstripChar(Fmt2f(m), "0"), ".")

(***************************************************************************)
(* Course Row Expander.  fields is a record with one entry per key of F;   *)
(* an absent key is None (the code reads fields only through .get).        *)
(***************************************************************************)
Repeat(x, n) == [i \in 1..n |-> x]

Min(a, b) == IF a < b THEN a ELSE b

\* a or b, for lists
OrList(a, b) == IF a # <<>> THEN a ELSE b

\* a pairing that never broadcasts a single element
PairLists_AlwaysTruncates(names0, codes0) ==
    LET names1 == IF names0 = <<>> THEN Repeat(<<>>, Len(codes0)) ELSE names0
        codes1 == IF codes0 = <<>> THEN Repeat(<<>>, Len(names1)) ELSE codes0
        m == Min(Len(names1), Len(codes1))
    IN  [names |-> SubSeq(names1, 1, m), codes |-> SubSeq(codes1, 1, m)]

\* the names/codes pairing of lines 251-263
PairLists(names0, codes0) ==
    LET names1 == IF names0 = <<>> THEN Repeat(<<>>, Len(codes0)) ELSE names0
        codes1 == IF codes0 = <<>> THEN Repeat(<<>>, Len(names1)) ELSE codes0
    IN  IF Len(names1) # Len(codes1)
        THEN IF Len(names1) = 1 /\ Len(codes1) > 1
               THEN [names |-> Repeat(names1[1], Len(codes1)), codes |-> codes1]
             ELSE IF Len(codes1) = 1 /\ Len(names1) > 1
               THEN [names |-> names1, codes |-> Repeat(codes1[1], Len(names1))]
             ELSE LET m == Min(Len(names1), Len(codes1)) IN
                  [names |-> SubSeq(names1, 1, m), codes |-> SubSeq(codes1, 1, m)]
        ELSE [names |-> names1, codes |-> codes1]

FirstSegment(s) == strip(split(s, ",")[1])

LetterOrDash(letter) == IF letter # <<>> THEN letter ELSE <<"DASH">>

RECURSIVE CourseRowsFrom(_, _, _, _, _, _)
CourseRowsFrom(i, names, codes, teachers, letter, percent) ==
    IF i > Len(names) THEN <<>>
    ELSE LET nm == strip(names[i])
             cd == strip(codes[i])
             first_teacher == IF teachers # <<>> THEN FirstSegment(teachers[1])
                              ELSE <<>>
             tchr == FirstSegment(IF i <= Len(teachers) THEN teachers[i]
                                  ELSE first_teacher)
             credits == quality_points(letter, looks_honors(nm))
             row == <<nm, cd, tchr, LetterOrDash(letter), percent, credits>>
         IN  (IF nm # <<>> \/ cd # <<>> THEN <<row>> ELSE <<>>)
             \o CourseRowsFrom(i + 1, names, codes, teachers, letter, percent)

build_course_rows(fields) ==
    LET names == OrList(listify(fields.course_name),
                        listify(fields.course_name_rollup))
        codes == OrList(listify(fields.course_code),
                        listify(fields.course_code_rollup))
        teachers == listify(fields.assigned_teachers)
        letter == strip(sget(fields.letter))
        percent == fmt_percent(fields.current_score)
    IN  IF names = <<>> /\ codes = <<>> THEN <<>>
        ELSE LET p == PairLists(names, codes) IN
             CourseRowsFrom(1, p.names, p.codes, teachers, letter, percent)

\* summarize_courses: one line per expanded course of every row, in order
CourseLine(row) ==
    IF row[2] # <<>> THEN row[1] \o <<" ", "DASH", " ">> \o row[2] ELSE row[1]

RECURSIVE summarize_courses(_)
summarize_courses(rows) ==
    IF rows = <<>> THEN <<>>
    ELSE LET local == build_course_rows(Head(rows).fields) IN
         [i \in DOMAIN local |-> CourseLine(local[i])]
         \o summarize_courses(Tail(rows))

(***************************************************************************)
(* Row Reconciler (build_pdf, lines 464-477)                               *)
(***************************************************************************)
RECURSIVE ExpandAll(_)
ExpandAll(rows) ==
    IF rows = <<>> THEN <<>>
    ELSE build_course_rows(Head(rows).fields) \o ExpandAll(Tail(rows))

AnyNonBlank(row) == \E i \in DOMAIN row : strip(row[i]) # <<>>

\* a reconciler that drops blank rows but keeps repeated ones
RECURSIVE DedupeRows_KeepsRepeats(_, _)
DedupeRows_KeepsRepeats(expanded, seen) ==
    IF expanded = <<>> THEN <<>>
    ELSE (IF AnyNonBlank(Head(expanded)) THEN <<Head(expanded)>> ELSE <<>>)
         \o DedupeRows_KeepsRepeats(Tail(expanded), seen)

\* first occurrences only, all-blank rows dropped
RECURSIVE DedupeRows(_, _)
DedupeRows(expanded, seen) ==
    IF expanded = <<>> THEN <<>>
    ELSE LET row == Head(expanded) IN
         IF row \notin seen /\ AnyNonBlank(row)
         THEN <<row>> \o DedupeRows(Tail(expanded), seen \cup {row})
         ELSE DedupeRows(Tail(expanded), seen)

SortKey(row) == <<lower(row[1]), lower(row[2])>>

\* a comparison that looks at the course name only
KeyLess_NameOnly(a, b) == StrLess(a[1], b[1])

\* tuple comparison of two sort keys
KeyLess(a, b) == StrLess(a[1], b[1]) \/ (a[1] = b[1] /\ StrLess(a[2], b[2]))

\* an unstable sort: a row goes before the rows whose key equals its own
RECURSIVE InsertRow_BeforeEqualKeys(_, _)
InsertRow_BeforeEqualKeys(sorted, row) ==
    IF sorted = <<>> THEN <<row>>
    ELSE IF ~KeyLess(SortKey(Head(sorted)), SortKey(row))
         THEN <<row>> \o sorted
         ELSE <<Head(sorted)>> \o InsertRow_BeforeEqualKeys(Tail(sorted), row)

\* list.sort(key=...) is stable: a row goes after every row whose key is
\* not greater than its own
RECURSIVE InsertRow(_, _)
InsertRow(sorted, row) ==
    IF sorted = <<>> THEN <<row>>
    ELSE IF KeyLess(SortKey(row), SortKey(Head(sorted)))
         THEN <<row>> \o sorted
         ELSE <<Head(sorted)>> \o InsertRow(Tail(sorted), row)

RECURSIVE SortRows(_)
SortRows(rows) ==
    IF rows = <<>> THEN <<>>
    ELSE InsertRow(SortRows(SubSeq(rows, 1, Len(rows) - 1)), rows[Len(rows)])

Sentinel == << <<"(","n","o"," ","c","o","u","r","s","e","s"," ",
                 "f","o","u","n","d",")">>, <<>>, <<>>, <<>>, <<>>, <<>> >>

ReconcileExpanded(expanded) ==
    LET clean == SortRows(DedupeRows(expanded, {})) IN
    IF clean = <<>> THEN <<Sentinel>> ELSE clean

Reconcile(rows) == ReconcileExpanded(ExpandAll(rows))

(***************************************************************************)
(* Output path                                                             *)
(***************************************************************************)
IsSafeChar(c) == IsUpper(c) \/ IsLowerC(c) \/ IsDigit(c) \/ c \in {".", "_", "-"}

\* re.sub(r"\s+", "_", s)
RECURSIVE SubSpaceRuns(_)
SubSpaceRuns(s) ==
    IF s = <<>> THEN <<>>
    ELSE IF IsSpace(Head(s))
         THEN IF Len(s) > 1 /\ IsSpace(s[2]) THEN SubSpaceRuns(Tail(s))
              ELSE <<"_">> \o SubSpaceRuns(Tail(s))
         ELSE <<Head(s)>> \o SubSpaceRuns(Tail(s))

\* s.replace(",", "_")
ReplaceCommas(s) == [i \in DOMAIN s |-> IF s[i] = "," THEN "_" ELSE s[i]]

\* re.sub(r"[^A-Za-z0-9._-]+", "_", s)
RECURSIVE SubUnsafeRuns(_)
SubUnsafeRuns(s) ==
    IF s = <<>> THEN <<>>
    ELSE IF ~IsSafeChar(Head(s))
         THEN IF Len(s) > 1 /\ ~IsSafeChar(s[2]) THEN SubUnsafeRuns(Tail(s))
              ELSE <<"_">> \o SubUnsafeRuns(Tail(s))
         ELSE <<Head(s)>> \o SubUnsafeRuns(Tail(s))

safe_filename(raw) ==
    LET s == stripChar(SubUnsafeRuns(ReplaceCommas(SubSpaceRuns(raw))), "_") IN
    IF s # <<>> THEN s ELSE <<"f","i","l","e">>

\* out / f"transcript_{safe_filename(student_name)}_{safe_filename(year)}.pdf"
PdfPath(student_name, year) ==
    <<"o","u","t","p","u","t","/">>
    \o <<"t","r","a","n","s","c","r","i","p","t","_">> \o safe_filename(student_name)
    \o <<"_">> \o safe_filename(year) \o <<".","p","d","f">>

(***************************************************************************)
(* The record store of the runs checked here, and the configuration        *)
(***************************************************************************)
MaxIds == 2

sAnnLee == <<"A","n","n"," ","L","e","e">>
sAnn_Lee == <<"A","n","n","_","L","e","e">>
s2024 == <<"2","0","2","4">>
s2025 == <<"2","0","2","5">>
sArtA == <<"A","r","t","-","A">>
sArtB == <<"A","r","t","-","B">>
sART1 == <<"A","R","T","1">>
sBio == <<"B","i","o">>
sBIO1 == <<"B","I","O","1">>
sKim == <<"K","i","m">>

NoFields ==
    [student_name |-> None, student_id |-> None, grade_select |-> None,
     school_year |-> None, course_name |-> None, course_code |-> None,
     assigned_teachers |-> None, letter |-> None, current_score |-> None,
     course_name_rollup |-> None, course_code_rollup |-> None]

ArtFields(teachers, score) ==
    [NoFields EXCEPT !.course_name = List(<<sArtA, sArtB>>),
                     !.course_code = List(<<sART1, sART1>>),
                     !.letter = Str(<<"B">>),
                     !.assigned_teachers = teachers,
                     !.current_score = score]

recA1 == [id |-> "recA1",
          fields |-> [ArtFields(None, Num(85)) EXCEPT
                         !.student_name = Str(sAnnLee),
                         !.student_id = Str(<<"7">>),
                         !.school_year = Str(s2024)]]
recA2 == [id |-> "recA2",
          fields |-> [NoFields EXCEPT
                         !.student_name = Str(sAnnLee),
                         !.student_id = Str(<<"7">>),
                         !.school_year = Str(s2025),
                         !.course_name = Str(sArtA),
                         !.course_code = Str(sART1),
                         !.letter = Str(<<"A">>)]]
recU == [id |-> "recU",
          fields |-> [NoFields EXCEPT
                         !.student_name = List(<<sAnn_Lee>>),
                         !.student_id = Str(<<"8">>),
                         !.school_year = Str(s2024),
                         !.course_name_rollup = Str(sBio),
                         !.course_code_rollup = Str(sBIO1),
                         !.letter = Str(<<"C">>)]]
recE == [id |-> "recE",
          fields |-> [NoFields EXCEPT !.course_name = Str(sBio)]]

\* TRANSCRIPT_TABLES, split on commas
TRANSCRIPT_TABLES_ENV == <<"T1", "T2">>
TRANSCRIPT_TABLE_FALLBACK == "Students 1221"

table_names ==
    IF TRANSCRIPT_TABLES_ENV # <<>> THEN TRANSCRIPT_TABLES_ENV
    ELSE <<TRANSCRIPT_TABLE_FALLBACK>>

\* the rows of each table, in the order a listing returns them
Store == [t \in Range(table_names) |->
            IF t = "T1" THEN <<recA1, recE>> ELSE <<recA2, recU>>]

\* "recX" is in no table; "" is a blank segment of RECORD_IDS
IdTokens == {"", "recA1", "recA2", "recU", "recE", "recX"}

SeqsUpTo(S, n) == UNION {[1..k -> S] : k \in 0..n}

NoErr == [table |-> "", kind |-> "none"]
NoRec == [id |-> "", fields |-> NoFields]

\* t.get(record_id): the record, or NoRec when the call raises
TableGet(t, record_id) ==
    IF \E i \in DOMAIN Store[t] : Store[t][i].id = record_id
    THEN Store[t][CHOOSE i \in DOMAIN Store[t] : Store[t][i].id = record_id]
    ELSE NoRec

\* raw[0] if isinstance(raw, list) and raw else str(raw or "")
NameOf(fields) ==
    LET raw == fields.student_name IN
    IF raw.kind = "list" THEN (IF raw.v # <<>> THEN raw.v[1] ELSE <<>>)
    ELSE IF raw.kind = "none" THEN <<>>
    ELSE raw.v

\* tbl.all(formula='{Student Name} = "<name>"'): the rows whose
\* student-name cell, as text, is the name
RECURSIVE MatchingRows(_, _)
MatchingRows(rows, student_name) ==
    IF rows = <<>> THEN <<>>
    ELSE (IF sget(Head(rows).fields.student_name) = student_name
          THEN <<Head(rows)>> ELSE <<>>)
         \o MatchingRows(Tail(rows), student_name)

\* fetch_rows_for_name_across_all_tables: a table whose query raises
\* (down) is skipped with a warning
RECURSIVE FetchFrom(_, _, _)
FetchFrom(tables, student_name, down) ==
    IF tables = <<>> THEN <<>>
    ELSE (IF Head(tables) \in down THEN <<>>
          ELSE MatchingRows(Store[Head(tables)], student_name))
         \o FetchFrom(Tail(tables), student_name, down)

fetch_rows_for_name_across_all_tables(student_name, down) ==
    FetchFrom(table_names, student_name, down)

\* [x.strip() for x in RECORD_IDS_ENV.split(",") if x.strip()]
RECURSIVE NonEmptyTokens(_)
NonEmptyTokens(toks) ==
    IF toks = <<>> THEN <<>>
    ELSE (IF Head(toks) # "" THEN <<Head(toks)>> ELSE <<>>)
         \o NonEmptyTokens(Tail(toks))

\* main, lines 533-537
ParseIds(env, single) ==
    IF env # <<"">> THEN NonEmptyTokens(env)
    ELSE IF single # "" THEN <<single>>
    ELSE <<>>


\* a merge that lets the latest record of a student replace the header
MergeInto_LastHeaderWins(maps, rec, cross, down) ==
    LET name == NameOf(rec.fields)
        rows == IF cross THEN fetch_rows_for_name_across_all_tables(name, down)
                ELSE <<rec>>
        known == name \in DOMAIN maps.header
    IN  [header |-> (name :> rec.fields) @@ maps.header,
         order  |-> IF known THEN maps.order ELSE Append(maps.order, name),
         rows   |-> IF name \in DOMAIN maps.rows
                    THEN [maps.rows EXCEPT ![name] = @ \o rows]
                    ELSE (name :> rows) @@ maps.rows]

\* main, lines 552-560: one resolved record with a non-empty name is merged
\* into the per-student maps; order is the insertion order of name_to_header
MergeInto(maps, rec, cross, down) ==
    LET name == NameOf(rec.fields)
        rows == IF cross THEN fetch_rows_for_name_across_all_tables(name, down)
                ELSE <<rec>>
        known == name \in DOMAIN maps.header
    IN  [header |-> IF known THEN maps.header
                    ELSE (name :> rec.fields) @@ maps.header,
         order  |-> IF known THEN maps.order ELSE Append(maps.order, name),
         rows   |-> IF name \in DOMAIN maps.rows
                    THEN [maps.rows EXCEPT ![name] = @ \o rows]
                    ELSE (name :> rows) @@ maps.rows]

EmptyMaps == [header |-> <<>>, order |-> <<>>, rows |-> <<>>]

(***************************************************************************)
(* State of one run of main.py                                             *)
(***************************************************************************)
VARIABLES
    RECORD_IDS_ENV,            \* RECORD_IDS split on commas, segments stripped
    RECORD_ID_SINGLE,          \* RECORD_ID / argv[1]
    INCLUDE_MATCH_BY_NAME,     \* cross-table mode
    LOG_FIELD_PDF_ATTACHMENT,  \* name of the attachment field, "" when unset
    queryDown,                 \* tables whose filtered query raises in this run
    pc,                        \* position of the process
    exit_status,               \* "running", "0", or "1" (sys.exit with a message)
    ids, idx,                  \* main: the identifiers and the loop position
    tIdx, lookups, last_err,   \* get_rec_and_table: loop position, lookups made
    rec,                       \* the record get_rec_and_table returned
    raised,                    \* the SystemExit get_rec_and_table raised last
    name_to_header, name_order, name_to_rows,
    sIdx,                      \* position in name_to_header.items()
    rows, pdf_file,            \* main: the bundle and the path being logged
    files,                     \* output directory: path -> document
    tlog,                      \* the log table: audit records, by record id
    uploads,                   \* assets stored by the attachment endpoint
    primaryCalls, secondaryCalls,  \* transport calls for the current record
    printed,                   \* the line printed last
    srcRows, rIdx, expanded, clean, phase  \* one reconciliation (build_pdf 464-477)

mainVars == <<RECORD_IDS_ENV, RECORD_ID_SINGLE, INCLUDE_MATCH_BY_NAME,
              LOG_FIELD_PDF_ATTACHMENT, queryDown, pc, exit_status, ids, idx,
              tIdx, lookups, last_err, rec, raised, name_to_header, name_order,
              name_to_rows, sIdx, rows, pdf_file, files, tlog, uploads,
              primaryCalls, secondaryCalls, printed>>
rowVars == <<srcRows, rIdx, expanded, clean, phase>>
vars == <<mainVars, rowVars>>

configVars == <<RECORD_IDS_ENV, RECORD_ID_SINGLE, INCLUDE_MATCH_BY_NAME,
                LOG_FIELD_PDF_ATTACHMENT, queryDown>>
resolverVars == <<tIdx, lookups, last_err, rec, raised>>
mapVars == <<name_to_header, name_order, name_to_rows>>
logVars == <<tlog, uploads, primaryCalls, secondaryCalls>>

RowsIdle ==
    /\ srcRows = <<>> /\ rIdx = 1 /\ expanded = <<>> /\ clean = <<>>
    /\ phase = "idle"

Init ==
    /\ RECORD_IDS_ENV \in SeqsUpTo(IdTokens, MaxIds) \ {<<>>}
    /\ RECORD_ID_SINGLE \in {"", "recA2"}
    /\ INCLUDE_MATCH_BY_NAME \in BOOLEAN
    /\ LOG_FIELD_PDF_ATTACHMENT \in {"", "Transcript PDF"}
    /\ queryDown \in SUBSET Range(table_names)
    /\ pc = "startup"
    /\ exit_status = "running"
    /\ ids = <<>> /\ idx = 1
    /\ tIdx = 1 /\ lookups = <<>> /\ last_err = NoErr
    /\ rec = NoRec /\ raised = NoErr
    /\ name_to_header = <<>> /\ name_order = <<>> /\ name_to_rows = <<>>
    /\ sIdx = 1 /\ rows = <<>> /\ pdf_file = <<>>
    /\ files = <<>> /\ tlog = <<>> /\ uploads = <<>>
    /\ primaryCalls = 0 /\ secondaryCalls = 0
    /\ printed = ""
    /\ RowsIdle

(***************************************************************************)
(* Module startup check (lines 31-32) and main's identifier list           *)
(***************************************************************************)
ConfigError ==
    /\ pc = "startup"
    /\ RECORD_IDS_ENV = <<"">> /\ RECORD_ID_SINGLE = ""
    /\ exit_status' = "1"
    /\ pc' = "exited"
    /\ printed' = "ERROR Provide at least one record id"
    /\ UNCHANGED <<configVars, ids, idx, resolverVars, mapVars, sIdx, rows,
                   pdf_file, files, logVars, rowVars>>

StartMain ==
    /\ pc = "startup"
    /\ ~(RECORD_IDS_ENV = <<"">> /\ RECORD_ID_SINGLE = "")
    /\ ids' = ParseIds(RECORD_IDS_ENV, RECORD_ID_SINGLE)
    /\ idx' = 1
    /\ pc' = "loop"
    /\ UNCHANGED printed
    /\ UNCHANGED <<configVars, exit_status, resolverVars, mapVars, sIdx, rows,
                   pdf_file, files, logVars, rowVars>>

(***************************************************************************)
(* Resolution loop (lines 542-565) with get_rec_and_table (122-132)        *)
(***************************************************************************)
\* for rid in ids: enter get_rec_and_table(rid)
BeginResolve ==
    /\ pc = "loop" /\ idx <= Len(ids)
    /\ tIdx' = 1 /\ lookups' = <<>> /\ last_err' = NoErr /\ rec' = NoRec
    /\ pc' = "lookup"
    /\ UNCHANGED printed
    /\ UNCHANGED <<configVars, exit_status, ids, idx, raised, mapVars, sIdx,
                   rows, pdf_file, files, logVars, rowVars>>


\* a resolver that keeps the first failure instead of the last
TryGetMiss_KeepsFirstErr ==
    /\ pc = "lookup" /\ tIdx <= Len(table_names)
    /\ TableGet(table_names[tIdx], ids[idx]) = NoRec
    /\ lookups' = Append(lookups, table_names[tIdx])
    /\ last_err' = IF last_err = NoErr
                   THEN [table |-> table_names[tIdx], kind |-> "NOT_FOUND"]
                   ELSE last_err
    /\ tIdx' = tIdx + 1
    /\ printed' = "DEBUG Not in table"
    /\ UNCHANGED <<configVars, pc, exit_status, ids, idx, rec, raised, mapVars,
                   sIdx, rows, pdf_file, files, logVars, rowVars>>

\* try_get raised: remember the error, go on with the next table
TryGetMiss ==
    /\ pc = "lookup" /\ tIdx <= Len(table_names)
    /\ TableGet(table_names[tIdx], ids[idx]) = NoRec
    /\ lookups' = Append(lookups, table_names[tIdx])
    /\ last_err' = [table |-> table_names[tIdx], kind |-> "NOT_FOUND"]
    /\ tIdx' = tIdx + 1
    /\ printed' = "DEBUG Not in table"
    /\ UNCHANGED <<configVars, pc, exit_status, ids, idx, rec, raised, mapVars,
                   sIdx, rows, pdf_file, files, logVars, rowVars>>

\* try_get returned a record: get_rec_and_table returns it
TryGetHit ==
    /\ pc = "lookup" /\ tIdx <= Len(table_names)
    /\ TableGet(table_names[tIdx], ids[idx]) # NoRec
    /\ lookups' = Append(lookups, table_names[tIdx])
    /\ rec' = TableGet(table_names[tIdx], ids[idx])
    /\ pc' = "merge"
    /\ printed' = "INFO Found record"
    /\ UNCHANGED <<configVars, exit_status, ids, idx, tIdx, last_err, raised,
                   mapVars, sIdx, rows, pdf_file, files, logVars, rowVars>>


\* a loop that a not-found error ends
AfterNotFound_EndsLoop(i) == Len(ids) + 1

\* the position main continues at after the SystemExit handler (line 563)
AfterNotFound(i) == i + 1


\* a not-found error that is not caught in main: the process exits with it
NotFound_Exits ==
    /\ pc = "lookup" /\ tIdx > Len(table_names)
    /\ raised' = last_err
    /\ exit_status' = "1"
    /\ pc' = "exited"
    /\ printed' = "ERROR Record not found in any configured tables"
    /\ UNCHANGED <<configVars, ids, idx, tIdx, lookups, last_err, rec,
                   mapVars, sIdx, rows, pdf_file, files, logVars, rowVars>>

\* every table failed: SystemExit carrying last_err, caught at line 562
NotFound ==
    /\ pc = "lookup" /\ tIdx > Len(table_names)
    /\ raised' = last_err
    /\ idx' = AfterNotFound(idx)
    /\ pc' = "loop"
    /\ printed' = "ERROR Record not found in any configured tables"
    /\ UNCHANGED <<configVars, exit_status, ids, tIdx, lookups, last_err, rec,
                   mapVars, sIdx, rows, pdf_file, files, logVars, rowVars>>

\* empty student name: warning and continue (lines 548-550)
SkipEmptyName ==
    /\ pc = "merge" /\ NameOf(rec.fields) = <<>>
    /\ idx' = idx + 1
    /\ pc' = "loop"
    /\ printed' = "WARN Student Name empty; skipping"
    /\ UNCHANGED <<configVars, exit_status, ids, resolverVars, mapVars, sIdx,
                   rows, pdf_file, files, logVars, rowVars>>

\* lines 552-560
MergeRecord ==
    /\ pc = "merge" /\ NameOf(rec.fields) # <<>>
    /\ LET m == MergeInto([header |-> name_to_header, order |-> name_order,
                           rows |-> name_to_rows],
                          rec, INCLUDE_MATCH_BY_NAME, queryDown)
       IN  /\ name_to_header' = m.header
           /\ name_order' = m.order
           /\ name_to_rows' = m.rows
    /\ idx' = idx + 1
    /\ pc' = "loop"
    /\ UNCHANGED printed
    /\ UNCHANGED <<configVars, exit_status, ids, resolverVars, sIdx, rows,
                   pdf_file, files, logVars, rowVars>>

\* lines 567-568
NoUsableRecords ==
    /\ pc = "loop" /\ idx > Len(ids)
    /\ DOMAIN name_to_header = {}
    /\ exit_status' = "1"
    /\ pc' = "exited"
    /\ printed' = "ERROR No usable records resolved"
    /\ UNCHANGED <<configVars, ids, idx, resolverVars, mapVars, sIdx, rows,
                   pdf_file, files, logVars, rowVars>>

BeginStudents ==
    /\ pc = "loop" /\ idx > Len(ids)
    /\ DOMAIN name_to_header # {}
    /\ sIdx' = 1
    /\ pc' = "render"
    /\ UNCHANGED printed
    /\ UNCHANGED <<configVars, exit_status, ids, idx, resolverVars, mapVars,
                   rows, pdf_file, files, logVars, rowVars>>

(***************************************************************************)
(* Per-student loop (lines 570-576): build_pdf, then log_to_airtable       *)
(***************************************************************************)
\* lines 571-574: the bundle of a student, header-only when it has no rows
BundleOf(student_name) ==
    IF student_name \in DOMAIN name_to_rows /\ name_to_rows[student_name] # <<>>
    THEN name_to_rows[student_name]
    ELSE << [id |-> "", fields |-> name_to_header[student_name]] >>

\* what build_pdf writes: the header facts and the reconciled course table
Document(header_fields, bundle) ==
    [student_name |-> strip(sget(header_fields.student_name)),
     year |-> sget(header_fields.school_year),
     courses |-> Reconcile(bundle)]

\* { r.get("id","") for r in rows if r.get("id") }
SourceIds(bundle) == {bundle[i].id : i \in DOMAIN bundle} \ {""}

NoAttachment == [via |-> "none"]

\* the payload of lines 364-371 (the run timestamp is left out), as the
\* created record: its attachment field starts empty
AuditRecord(header_fields, bundle) ==
    [student_name |-> strip(sget(header_fields.student_name)),
     student_id |-> sget(header_fields.student_id),
     year |-> sget(header_fields.school_year),
     grade |-> sget(header_fields.grade_select),
     courses_text |-> summarize_courses(bundle),
     source_ids |-> SourceIds(bundle),
     attachment |-> NoAttachment]

CurrentStudent == name_order[sIdx]

\* log_to_airtable returned: main goes on with the next student
NextStudent ==
    /\ sIdx' = sIdx + 1
    /\ pc' = "render"

Render ==
    /\ pc = "render" /\ sIdx <= Len(name_order)
    /\ LET header_fields == name_to_header[CurrentStudent]
           bundle == BundleOf(CurrentStudent)
           doc == Document(header_fields, bundle)
           path == PdfPath(doc.student_name, doc.year)
       IN  /\ rows' = bundle
           /\ pdf_file' = path
           /\ files' = (path :> doc) @@ files
    /\ primaryCalls' = 0 /\ secondaryCalls' = 0
    /\ pc' = "log_open"
    /\ printed' = "OK Generated landscape transcript"
    /\ UNCHANGED <<configVars, exit_status, ids, idx, resolverVars, mapVars,
                   sIdx, tlog, uploads, rowVars>>

\* main returns: the process ends with status 0
RunDone ==
    /\ pc = "render" /\ sIdx > Len(name_order)
    /\ exit_status' = "0"
    /\ pc' = "exited"
    /\ UNCHANGED printed
    /\ UNCHANGED <<configVars, ids, idx, resolverVars, mapVars, sIdx, rows,
                   pdf_file, files, logVars, rowVars>>

\* lines 350-354: api.table(...) for the log table
LogOpenFails ==
    /\ pc = "log_open"
    /\ NextStudent
    /\ printed' = "WARN Could not open log table"
    /\ UNCHANGED <<configVars, exit_status, ids, idx, resolverVars, mapVars,
                   rows, pdf_file, files, logVars, rowVars>>

LogOpen ==
    /\ pc = "log_open"
    /\ pc' = "log_create"
    /\ UNCHANGED printed
    /\ UNCHANGED <<configVars, exit_status, ids, idx, resolverVars, mapVars,
                   sIdx, rows, pdf_file, files, logVars, rowVars>>


\* a create failure that is not caught: the run ends with it
LogCreateFails_Aborts ==
    /\ pc = "log_create"
    /\ exit_status' = "1"
    /\ pc' = "exited"
    /\ printed' = "WARN Failed to create log record"
    /\ UNCHANGED <<configVars, ids, idx, resolverVars, mapVars, sIdx,
                   rows, pdf_file, files, logVars, rowVars>>

\* lines 373-378: tlog.create(payload)
LogCreateFails ==
    /\ pc = "log_create"
    /\ NextStudent
    /\ printed' = "WARN Failed to create log record"
    /\ UNCHANGED <<configVars, exit_status, ids, idx, resolverVars, mapVars,
                   rows, pdf_file, files, logVars, rowVars>>

LogCreate ==
    /\ pc = "log_create"
    /\ tlog' = Append(tlog, AuditRecord(name_to_header[CurrentStudent], rows))
    /\ pc' = "attach"
    /\ printed' = "OK Logged transcript"
    /\ UNCHANGED <<configVars, exit_status, ids, idx, resolverVars, mapVars,
                   sIdx, rows, pdf_file, files, uploads, primaryCalls,
                   secondaryCalls, rowVars>>

(***************************************************************************)
(* attach_pdf_to_log_record (lines 304-346); the audit record is the last  *)
(* one of tlog.  The file build_pdf has just written is readable at both   *)
(* open() calls.                                                           *)
(***************************************************************************)
\* os.path.basename
Basename(path) == LET parts == split(path, "/") IN parts[Len(parts)]

\* lines 305-310
AttachSkipped ==
    /\ pc = "attach"
    /\ LOG_FIELD_PDF_ATTACHMENT = "" \/ pdf_file \notin DOMAIN files
    /\ NextStudent
    /\ printed' = "INFO skipping attachment"
    /\ UNCHANGED <<configVars, exit_status, ids, idx, resolverVars, mapVars,
                   rows, pdf_file, files, logVars, rowVars>>

\* where attach_pdf_to_log_record goes on after upload_attachment raised
AfterPrimaryFailure == "fallback"

\* lines 314-327: log_table.upload_attachment raises
PrimaryFails ==
    /\ pc = "attach"
    /\ LOG_FIELD_PDF_ATTACHMENT # "" /\ pdf_file \in DOMAIN files
    /\ primaryCalls' = primaryCalls + 1
    /\ pc' = AfterPrimaryFailure
    /\ printed' = "WARN upload_attachment failed"
    /\ UNCHANGED <<configVars, exit_status, ids, idx, resolverVars, mapVars,
                   sIdx, rows, pdf_file, files, tlog, uploads, secondaryCalls,
                   rowVars>>


\* a primary upload that succeeds and then falls through to the fallback
PrimarySucceeds_FallsThrough ==
    /\ pc = "attach"
    /\ LOG_FIELD_PDF_ATTACHMENT # "" /\ pdf_file \in DOMAIN files
    /\ primaryCalls' = primaryCalls + 1
    /\ tlog' = [tlog EXCEPT ![Len(tlog)].attachment =
                   [via |-> "upload_attachment",
                    filename |-> Basename(pdf_file),
                    content |-> files[pdf_file]]]
    /\ pc' = "fallback"
    /\ printed' = "OK Attached PDF via upload_attachment"
    /\ UNCHANGED <<configVars, exit_status, ids, idx, resolverVars, mapVars,
                   sIdx, rows, pdf_file, files, uploads, secondaryCalls, rowVars>>

\* lines 314-325: log_table.upload_attachment stores the file in the field
PrimarySucceeds ==
    /\ pc = "attach"
    /\ LOG_FIELD_PDF_ATTACHMENT # "" /\ pdf_file \in DOMAIN files
    /\ primaryCalls' = primaryCalls + 1
    /\ tlog' = [tlog EXCEPT ![Len(tlog)].attachment =
                   [via |-> "upload_attachment",
                    filename |-> Basename(pdf_file),
                    content |-> files[pdf_file]]]
    /\ NextStudent
    /\ printed' = "OK Attached PDF via upload_attachment"
    /\ UNCHANGED <<configVars, exit_status, ids, idx, resolverVars, mapVars,
                   rows, pdf_file, files, uploads, secondaryCalls, rowVars>>

\* lines 329-346: requests.post raises, answers an error status, or answers
\* without an id; nothing is patched
SecondaryPostFails ==
    /\ pc = "fallback"
    /\ secondaryCalls' = secondaryCalls + 1
    /\ NextStudent
    /\ printed' = "WARN PDF attachment upload failed even with fallback"
    /\ UNCHANGED <<configVars, exit_status, ids, idx, resolverVars, mapVars,
                   rows, pdf_file, files, tlog, uploads, primaryCalls, rowVars>>

\* the asset is stored but log_table.update raises
SecondaryPatchFails ==
    /\ pc = "fallback"
    /\ secondaryCalls' = secondaryCalls + 1
    /\ uploads' = Append(uploads, [filename |-> Basename(pdf_file),
                                   content |-> files[pdf_file]])
    /\ NextStudent
    /\ printed' = "WARN PDF attachment upload failed even with fallback"
    /\ UNCHANGED <<configVars, exit_status, ids, idx, resolverVars, mapVars,
                   rows, pdf_file, files, tlog, primaryCalls, rowVars>>

\* the asset is stored and the audit record is patched with its id
SecondarySucceeds ==
    /\ pc = "fallback"
    /\ secondaryCalls' = secondaryCalls + 1
    /\ uploads' = Append(uploads, [filename |-> Basename(pdf_file),
                                   content |-> files[pdf_file]])
    /\ tlog' = [tlog EXCEPT ![Len(tlog)].attachment =
                   [via |-> "patch", id |-> Len(uploads) + 1]]
    /\ NextStudent
    /\ printed' = "OK Attached PDF via Web API"
    /\ UNCHANGED <<configVars, exit_status, ids, idx, resolverVars, mapVars,
                   rows, pdf_file, files, primaryCalls, rowVars>>

Next ==
    \/ ConfigError \/ StartMain
    \/ BeginResolve \/ TryGetMiss \/ TryGetHit \/ NotFound
    \/ SkipEmptyName \/ MergeRecord
    \/ NoUsableRecords \/ BeginStudents
    \/ Render \/ RunDone
    \/ LogOpenFails \/ LogOpen \/ LogCreateFails \/ LogCreate
    \/ AttachSkipped \/ PrimaryFails \/ PrimarySucceeds
    \/ SecondaryPostFails \/ SecondaryPatchFails \/ SecondarySucceeds

Spec == Init /\ [][Next]_vars

(***************************************************************************)
(* One reconciliation on its own: the course table build_pdf computes      *)
(* (lines 464-477) for a bundle of source rows drawn from RowChoices.      *)
(***************************************************************************)
MaxRows == 2

ArtRow(teachers, score) == [id |-> "art", fields |-> ArtFields(teachers, score)]

sART2 == <<"A","R","T","2">>
sart_a == <<"a","r","t","-","a">>
sart1 == <<"a","r","t","1">>

PairRow(names, codes, letter) ==
    [id |-> "pair",
     fields |-> [NoFields EXCEPT !.course_name = names,
                                 !.course_code = codes,
                                 !.letter = letter]]

\* source rows whose name and code lists differ in length: 1 and 2, 2 and 1,
\* 2 and 3, 0 and 2
UnevenRows ==
    {PairRow(Str(sArtA), List(<<sART1, sART2>>), Str(<<"A">>)),
     PairRow(List(<<sart_a, sart_a>>), Str(sart1), Str(<<"A">>)),
     PairRow(List(<<sArtA, sArtB>>), List(<<sART1, sART2, sBIO1>>), None),
     PairRow(None, List(<<sART1, sART2>>), Str(<<"B">>))}

\* Num(85) is 0.85, Num(8500) is 85: both print as "85"
RowChoices ==
    {ArtRow(t, sc) : t \in {None, Str(sKim)},
                     sc \in {Num(85), Num(8500), Num(9000)}}
    \cup {recA2, recU, recE}
    \cup UnevenRows

MainIdle ==
    /\ RECORD_IDS_ENV = <<"">> /\ RECORD_ID_SINGLE = ""
    /\ INCLUDE_MATCH_BY_NAME = FALSE /\ LOG_FIELD_PDF_ATTACHMENT = ""
    /\ queryDown = {}
    /\ pc = "idle" /\ exit_status = "running"
    /\ ids = <<>> /\ idx = 1
    /\ tIdx = 1 /\ lookups = <<>> /\ last_err = NoErr
    /\ rec = NoRec /\ raised = NoErr
    /\ name_to_header = <<>> /\ name_order = <<>> /\ name_to_rows = <<>>
    /\ sIdx = 1 /\ rows = <<>> /\ pdf_file = <<>>
    /\ files = <<>> /\ tlog = <<>> /\ uploads = <<>>
    /\ primaryCalls = 0 /\ secondaryCalls = 0
    /\ printed = ""

InitRows ==
    /\ MainIdle
    /\ srcRows \in SeqsUpTo(RowChoices, MaxRows)
    /\ rIdx = 1
    /\ expanded = <<>> /\ clean = <<>>
    /\ phase = "expand"

\* lines 465-466
ExpandRow ==
    /\ phase = "expand" /\ rIdx <= Len(srcRows)
    /\ expanded' = expanded \o build_course_rows(srcRows[rIdx].fields)
    /\ rIdx' = rIdx + 1
    /\ UNCHANGED <<mainVars, srcRows, clean, phase>>

\* lines 468-473
DedupeStep ==
    /\ phase = "expand" /\ rIdx > Len(srcRows)
    /\ clean' = DedupeRows(expanded, {})
    /\ phase' = "sort"
    /\ UNCHANGED <<mainVars, srcRows, rIdx, expanded>>

\* line 474
SortStep ==
    /\ phase = "sort"
    /\ clean' = SortRows(clean)
    /\ phase' = "sentinel"
    /\ UNCHANGED <<mainVars, srcRows, rIdx, expanded>>

\* lines 475-477
SentinelStep ==
    /\ phase = "sentinel"
    /\ clean' = IF clean = <<>> THEN <<Sentinel>> ELSE clean
    /\ phase' = "done"
    /\ UNCHANGED <<mainVars, srcRows, rIdx, expanded>>

NextRows == ExpandRow \/ DedupeStep \/ SortStep \/ SentinelStep

SpecRows == InitRows /\ [][NextRows]_vars

(***************************************************************************)
(* What the record store holds, independently of any run                   *)
(***************************************************************************)
StoredRecords == UNION {Range(Store[t]) : t \in Range(table_names)}

InStore(rid) == \E r \in StoredRecords : r.id = rid

FindRecord(rid) == CHOOSE r \in StoredRecords : r.id = rid

\* rid resolves to a record with a non-empty student name
Usable(rid) == InStore(rid) /\ NameOf(FindRecord(rid).fields) # <<>>

UsableNames(idList) ==
    {NameOf(FindRecord(idList[i]).fields) : i \in {j \in DOMAIN idList : Usable(idList[j])}}

\* the rows the merger yields for a usable identifier
MergerRows(rid) ==
    IF INCLUDE_MATCH_BY_NAME
    THEN fetch_rows_for_name_across_all_tables(NameOf(FindRecord(rid).fields), queryDown)
    ELSE <<FindRecord(rid)>>

\* what the usable identifiers of idList that name student n contribute,
\* in list order
RECURSIVE ContributedRows(_, _)
ContributedRows(idList, n) ==
    IF idList = <<>> THEN <<>>
    ELSE (IF Usable(Head(idList)) /\ NameOf(FindRecord(Head(idList)).fields) = n
          THEN MergerRows(Head(idList)) ELSE <<>>)
         \o ContributedRows(Tail(idList), n)

LoopFinished == pc = "render" /\ sIdx = 1

(***************************************************************************)
(* C1: get_rec_and_table looks the identifier up in the candidate tables   *)
(* in list order, at most once per table; every lookup before the current  *)
(* one failed, so the first table that returns a record ends the search    *)
(* and is the resolved table; the not-found error is raised only when      *)
(* every candidate was tried and failed, and it carries the failure of the *)
(* last candidate.                                                         *)
(***************************************************************************)
C1_ResolverOrder ==
    /\ pc \in {"lookup", "merge"} =>
         /\ lookups = SubSeq(table_names, 1, Len(lookups))
         /\ \A k \in 1..(Len(lookups) - 1) : TableGet(lookups[k], ids[idx]) = NoRec
         /\ pc = "lookup" =>
              /\ \A k \in DOMAIN lookups : TableGet(lookups[k], ids[idx]) = NoRec
              /\ Len(lookups) = tIdx - 1
              /\ lookups # <<>> =>
                   last_err = [table |-> lookups[Len(lookups)], kind |-> "NOT_FOUND"]
         /\ pc = "merge" =>
              /\ lookups # <<>>
              /\ rec # NoRec /\ rec.id = ids[idx]
              /\ rec = TableGet(lookups[Len(lookups)], ids[idx])
    /\ (pc = "loop" /\ printed = "ERROR Record not found in any configured tables") =>
         /\ lookups = table_names
         /\ ~InStore(ids[idx - 1])
         /\ raised = [table |-> table_names[Len(table_names)], kind |-> "NOT_FOUND"]

\* the identifier is only in the second table: found there after one miss
C1_Witness ==
    /\ pc = "merge" /\ lookups = <<"T1", "T2">> /\ rec = recA2
    /\ raised.kind = "NOT_FOUND"

(***************************************************************************)
(* C2: with an audit record created, an attachment field name and the PDF  *)
(* on disk: after the primary transport raised, the secondary transport is *)
(* invoked exactly once, and when it succeeds the audit record references  *)
(* the uploaded asset, which is this student's document; after the primary *)
(* succeeded the secondary is not invoked; when both failed the audit      *)
(* record exists and has no attachment reference.                          *)
(***************************************************************************)
LastAudit == tlog[Len(tlog)]

C2_AttachmentFallback ==
    /\ primaryCalls <= 1 /\ secondaryCalls <= 1
    /\ pc = "fallback" =>
         primaryCalls = 1 /\ secondaryCalls = 0 /\ LastAudit.attachment = NoAttachment
    /\ secondaryCalls = 1 =>
         /\ primaryCalls = 1
         /\ printed \in {"OK Attached PDF via Web API",
                         "WARN PDF attachment upload failed even with fallback"}
    /\ printed = "OK Attached PDF via upload_attachment" =>
         /\ secondaryCalls = 0
         /\ LastAudit.attachment.via = "upload_attachment"
         /\ LastAudit.attachment.content = files[pdf_file]
    /\ printed = "OK Attached PDF via Web API" =>
         /\ secondaryCalls = 1
         /\ LastAudit.attachment.via = "patch"
         /\ LastAudit.attachment.id \in DOMAIN uploads
         /\ uploads[LastAudit.attachment.id].content = files[pdf_file]
         /\ LastAudit.student_name = files[pdf_file].student_name
    /\ printed = "WARN PDF attachment upload failed even with fallback" =>
         /\ secondaryCalls = 1
         /\ tlog # <<>>
         /\ LastAudit.student_name = files[pdf_file].student_name
         /\ LastAudit.attachment = NoAttachment

\* a second student's record patched by the fallback after the first
\* student's fallback failed
C2_Witness ==
    /\ printed = "OK Attached PDF via Web API"
    /\ Len(tlog) = 2
    /\ tlog[1].attachment = NoAttachment
    /\ tlog[2].attachment.via = "patch"

(***************************************************************************)
(* C3: a failure to open the log table, to create the audit record, of the *)
(* primary upload or of the secondary upload and patch is logged as a      *)
(* warning and swallowed: the process does not exit on it, and a run that  *)
(* resolved at least one student ends with status 0 after every student    *)
(* was rendered.                                                           *)
(***************************************************************************)
LogFailureWarnings ==
    {"WARN Could not open log table", "WARN Failed to create log record",
     "WARN upload_attachment failed",
     "WARN PDF attachment upload failed even with fallback"}

StudentPath(n) ==
    PdfPath(strip(sget(name_to_header[n].student_name)),
            sget(name_to_header[n].school_year))

C3_BestEffortLogging ==
    /\ printed \in LogFailureWarnings =>
         /\ exit_status # "1"
         /\ pc \in {"fallback", "render", "exited"}
         /\ pc = "exited" => sIdx = Len(name_order) + 1
    /\ (pc = "exited" /\ DOMAIN name_to_header # {}) =>
         /\ exit_status = "0"
         /\ sIdx = Len(name_order) + 1
         /\ \A n \in DOMAIN name_to_header : StudentPath(n) \in DOMAIN files

\* two students rendered, the first one's logging failed, the run ended 0
C3_Witness ==
    /\ pc = "exited" /\ exit_status = "0"
    /\ Len(name_order) = 2
    /\ Len(tlog) = 1 /\ tlog[1].student_name = strip(name_order[2])
    /\ printed \in LogFailureWarnings

(***************************************************************************)
(* C4: an identifier that is in no table, or whose record has an empty     *)
(* student name, is skipped and nothing else: whenever the loop is at its  *)
(* head, each student's bundle is exactly what the usable identifiers      *)
(* processed so far contribute, in list order, and the students with a     *)
(* header are exactly theirs; the loop ends only after the last            *)
(* identifier.                                                             *)
(***************************************************************************)
C4_SkipOnlyFailingIdentifier ==
    /\ pc = "loop" =>
         LET done == SubSeq(ids, 1, idx - 1) IN
         /\ idx <= Len(ids) + 1
         /\ DOMAIN name_to_header = UsableNames(done)
         /\ DOMAIN name_to_rows = UsableNames(done)
         /\ \A n \in UsableNames(done) : name_to_rows[n] = ContributedRows(done, n)
    /\ pc \in {"render", "log_open", "log_create", "attach", "fallback"} =>
         /\ idx = Len(ids) + 1
         /\ \A n \in UsableNames(ids) : name_to_rows[n] = ContributedRows(ids, n)

\* a usable identifier merged after an unknown one was skipped
C4_Witness ==
    /\ LoopFinished
    /\ ids = <<"recX", "recA1">>
    /\ ~INCLUDE_MATCH_BY_NAME
    /\ name_to_rows[sAnnLee] = <<recA1>>

(***************************************************************************)
(* C5 as stated: with at least one identifier configured the process never *)
(* exits with a non-zero status.                                           *)
(***************************************************************************)
C5_NeverNonZeroExit == ids # <<>> => exit_status # "1"

(***************************************************************************)
(* C5 amended: with at least one identifier configured, the process exits  *)
(* with a non-zero status exactly when no identifier resolves to a record  *)
(* with a non-empty student name, and then no artifact and no audit record *)
(* was produced; resolution, data and transport errors never end a run     *)
(* that resolved at least one student with a non-zero status.              *)
(***************************************************************************)
C5_NonZeroExitOnlyWithoutUsableRecord ==
    (ids # <<>> /\ pc = "exited") =>
        /\ exit_status = "1" <=> UsableNames(ids) = {}
        /\ exit_status = "0" <=> UsableNames(ids) # {}
        /\ exit_status = "1" => files = <<>> /\ tlog = <<>>

\* a run with a resolution error, failed queries and a failed log record
\* that ended with status 0
C5_Witness ==
    /\ pc = "exited" /\ exit_status = "0"
    /\ raised # NoErr
    /\ INCLUDE_MATCH_BY_NAME /\ queryDown = Range(table_names)
    /\ tlog = <<>>

(***************************************************************************)
(* C6 as stated: the bundle handed to rendering and logging for a student  *)
(* includes, with its record id, the record of every identifier that       *)
(* resolved to that student, in scoped and in cross-table mode; when a     *)
(* cross-table search matched nothing the bundle is exactly that record.   *)
(***************************************************************************)
ResolvedTo(n) ==
    {FindRecord(ids[i]) : i \in {j \in DOMAIN ids :
        Usable(ids[j]) /\ NameOf(FindRecord(ids[j]).fields) = n}}

C6_BundleIncludesResolvedRecord ==
    pc = "log_open" =>
        /\ ResolvedTo(CurrentStudent) \subseteq Range(rows)
        /\ name_to_rows[CurrentStudent] = <<>> =>
             \E r \in ResolvedTo(CurrentStudent) : rows = <<r>>

(***************************************************************************)
(* C7 as stated: two distinct student names of one run have different      *)
(* output paths, and at the end of the run the file at each student's path *)
(* is that student's document.                                             *)
(***************************************************************************)
C7_DistinctStudentsDistinctPaths ==
    /\ \A n1, n2 \in DOMAIN name_to_header :
         n1 # n2 => StudentPath(n1) # StudentPath(n2)
    /\ (pc = "exited" /\ exit_status = "0") =>
         \A n \in DOMAIN name_to_header :
            files[StudentPath(n)].student_name = strip(n)

(***************************************************************************)
(* C8 as stated: two source rows, each with course names Art-A, Art-B,     *)
(* codes ART1, ART1 and letter grade B, reconcile to exactly two distinct  *)
(* course rows, one for the first half-year course Art-A and one for the   *)
(* second half-year course Art-B, both with quality points "3".            *)
(***************************************************************************)
IsArtRow(r) ==
    /\ r.fields.course_name = List(<<sArtA, sArtB>>)
    /\ r.fields.course_code = List(<<sART1, sART1>>)
    /\ r.fields.letter = Str(<<"B">>)

TwoArtCourseRows ==
    /\ Len(clean) = 2
    /\ clean[1] # clean[2]
    /\ clean[1][1] = sArtA /\ clean[2][1] = sArtB
    /\ \A i \in DOMAIN clean : clean[i][2] = sART1 /\ clean[i][6] = <<"3">>

SameTeacherAndPercent(r1, r2) ==
    /\ listify(r1.fields.assigned_teachers) = listify(r2.fields.assigned_teachers)
    /\ fmt_percent(r1.fields.current_score) = fmt_percent(r2.fields.current_score)

RECURSIVE ResolveIn(_, _)
ResolveIn(tables, rid) ==
    IF tables = <<>> THEN NoRec
    ELSE IF TableGet(Head(tables), rid) # NoRec THEN TableGet(Head(tables), rid)
    ELSE ResolveIn(Tail(tables), rid)

RECURSIVE RunLoopFrom(_, _)
RunLoopFrom(idList, maps) ==
    IF idList = <<>> THEN maps
    ELSE LET r == ResolveIn(table_names, Head(idList)) IN
         RunLoopFrom(Tail(idList),
                     IF r # NoRec /\ NameOf(r.fields) # <<>>
                     THEN MergeInto(maps, r, INCLUDE_MATCH_BY_NAME, queryDown)
                     ELSE maps)

RunLoop(idList) == RunLoopFrom(idList, EmptyMaps)

Perms(seq) ==
    {[i \in DOMAIN seq |-> seq[f[i]]] :
        f \in {g \in [DOMAIN seq -> DOMAIN seq] :
                 \A i, j \in DOMAIN seq : i # j => g[i] # g[j]}}

\* lines 571-574 on the maps of a run
BundleIn(maps, n) ==
    IF maps.rows[n] # <<>> THEN maps.rows[n]
    ELSE << [id |-> "", fields |-> maps.header[n]] >>

(***************************************************************************)
(* C9 as stated: a run on any permutation of the identifiers produces for  *)
(* every student the same header, the same set of merged source rows and   *)
(* the same reconciled course rows.                                        *)
(***************************************************************************)
C9_OrderIndependent ==
    LoopFinished =>
        \A p \in Perms(ids) :
            LET m == RunLoop(p) IN
            /\ m.header = name_to_header
            /\ \A n \in DOMAIN name_to_header :
                 /\ Range(m.rows[n]) = Range(name_to_rows[n])
                 /\ Reconcile(BundleIn(m, n)) = Reconcile(BundleOf(n))

(***************************************************************************)
(* C9 amended: a run on any permutation of the identifiers produces the    *)
(* same students and, for every student, the same set of merged source     *)
(* rows and, when that set is not empty, the same set of reconciled course *)
(* rows; a student's header is the fields of the first identifier in list  *)
(* order that resolves to that student.                                    *)
(***************************************************************************)
FirstFieldsFor(idList, n) ==
    LET i == CHOOSE j \in DOMAIN idList :
                /\ Usable(idList[j]) /\ NameOf(FindRecord(idList[j]).fields) = n
                /\ \A k \in 1..(j - 1) :
                     ~(Usable(idList[k]) /\ NameOf(FindRecord(idList[k]).fields) = n)
    IN  FindRecord(idList[i]).fields

C9_OrderAffectsOnlyHeaderAndTies ==
    LoopFinished =>
        /\ DOMAIN name_to_header = UsableNames(ids)
        /\ \A n \in DOMAIN name_to_header : name_to_header[n] = FirstFieldsFor(ids, n)
        /\ \A p \in Perms(ids) :
            LET m == RunLoop(p) IN
            /\ DOMAIN m.header = DOMAIN name_to_header
            /\ \A n \in DOMAIN name_to_header :
                 /\ m.header[n] = FirstFieldsFor(p, n)
                 /\ Range(m.rows[n]) = Range(name_to_rows[n])
                 /\ name_to_rows[n] # <<>> =>
                      Range(Reconcile(m.rows[n])) = Range(Reconcile(name_to_rows[n]))

\* two records of one student in either order: the header differs, the
\* merged rows do not
C9_Witness ==
    /\ LoopFinished
    /\ ids = <<"recA1", "recA2">>
    /\ name_to_header[sAnnLee] = recA1.fields
    /\ RunLoop(<<"recA2", "recA1">>).header[sAnnLee] = recA2.fields
    /\ Range(name_to_rows[sAnnLee]) = {recA1, recA2}

(***************************************************************************)
(* C10 as stated: after the resolution loop no source record occurs more   *)
(* than once in a student's merged row sequence, and the course summary of *)
(* the audit record lists each contributing record's courses once.         *)
(***************************************************************************)
NoRepeats(seq) == \A i, j \in DOMAIN seq : i # j => seq[i] # seq[j]

RECURSIVE FirstOccurrences(_, _)
FirstOccurrences(seq, seen) ==
    IF seq = <<>> THEN <<>>
    ELSE IF Head(seq) \in seen THEN FirstOccurrences(Tail(seq), seen)
    ELSE <<Head(seq)>> \o FirstOccurrences(Tail(seq), seen \cup {Head(seq)})

C10_MergedRowsHaveNoRepeats ==
    /\ LoopFinished => \A n \in DOMAIN name_to_rows : NoRepeats(name_to_rows[n])
    /\ pc = "attach" =>
         LastAudit.courses_text = summarize_courses(FirstOccurrences(rows, {}))

(***************************************************************************)
(* C11: the reconciled course rows are a fixed point of the reconciler     *)
(* (dedupe by tuple equality, drop all-blank rows, stable sort by the      *)
(* lower-cased name and code, sentinel row when empty): reconciling them   *)
(* again gives the same sequence, for every bundle of source rows, the     *)
(* empty one included; they are never empty and hold no two equal rows.    *)
(***************************************************************************)
C11_ReconcileIdempotent ==
    phase = "done" =>
        /\ ReconcileExpanded(clean) = clean
        /\ clean # <<>>
        /\ NoRepeats(clean)

\* a repeated course row was dropped and two distinct rows that share a
\* sort key were kept, in their input order
C11_Witness ==
    /\ phase = "done"
    /\ Len(clean) < Len(expanded)
    /\ \E i, j \in DOMAIN clean :
          i < j /\ clean[i] # clean[j] /\ SortKey(clean[i]) = SortKey(clean[j])
    /\ ReconcileExpanded(clean) = clean

(***************************************************************************)
(* Reconciling the expanded rows in another order                          *)
(***************************************************************************)
\* the permutation checks cover expanded lists of at most this many rows
MaxPermRows == 3

Precedes(r1, r2) == KeyLess(SortKey(r1), SortKey(r2))

ExactlyOnePrecedes(r1, r2) ==
    /\ Precedes(r1, r2) \/ Precedes(r2, r1)
    /\ ~(Precedes(r1, r2) /\ Precedes(r2, r1))

SortedByKey(seq) == \A i, j \in DOMAIN seq : i < j => ~Precedes(seq[j], seq[i])

\* where a row first occurs in a sequence that holds it
FirstAt(seq, row) ==
    CHOOSE i \in DOMAIN seq :
        seq[i] = row /\ \A k \in 1..(i - 1) : seq[k] # row

DistinctKeys(seq) ==
    \A i, j \in DOMAIN seq : i # j => SortKey(seq[i]) # SortKey(seq[j])

(***************************************************************************)
(* C12 as stated: the sort is a total order on rows, of any two distinct   *)
(* reconciled rows exactly one precedes the other under the lower-cased    *)
(* (name, code) comparison, and reconciling any permutation of the         *)
(* expanded rows gives the identical row sequence.                         *)
(***************************************************************************)
C12_SortIsTotalOrderOnRows ==
    phase = "done" =>
        /\ \A i, j \in DOMAIN clean :
              clean[i] # clean[j] => ExactlyOnePrecedes(clean[i], clean[j])
        /\ Len(expanded) <= MaxPermRows =>
              \A p \in Perms(expanded) : ReconcileExpanded(p) = clean

(***************************************************************************)
(* C12 amended: the sort orders rows by their lower-cased (name, code) key *)
(* alone: the output is ascending in the key, of two rows with different   *)
(* keys exactly one precedes the other, and rows with equal keys keep      *)
(* their input order; so reconciling any permutation of the expanded rows  *)
(* gives the same set of rows with the same sequence of keys, and the      *)
(* identical row sequence when no two distinct rows share a key.           *)
(***************************************************************************)
C12_SortIsTotalOrderOnKeys ==
    phase = "done" =>
        /\ SortedByKey(clean)
        /\ \A i, j \in DOMAIN clean :
              SortKey(clean[i]) # SortKey(clean[j])
                  => ExactlyOnePrecedes(clean[i], clean[j])
        /\ \A i, j \in DOMAIN clean :
              (i < j /\ SortKey(clean[i]) = SortKey(clean[j]))
                  => FirstAt(expanded, clean[i]) < FirstAt(expanded, clean[j])
        /\ Len(expanded) <= MaxPermRows =>
              \A p \in Perms(expanded) :
                 LET q == ReconcileExpanded(p) IN
                 /\ Range(q) = Range(clean)
                 /\ Len(q) = Len(clean)
                 /\ \A i \in DOMAIN q : SortKey(q[i]) = SortKey(clean[i])
                 /\ DistinctKeys(clean) => q = clean

\* rows that arrive in descending key order, two of them with the same
\* name and different codes, and a permutation of them that reconciles to
\* the same sequence
C12_Witness ==
    /\ phase = "done"
    /\ Len(expanded) = 3 /\ Len(clean) = 3
    /\ DistinctKeys(clean)
    /\ Precedes(expanded[3], expanded[1])
    /\ \E i, j \in DOMAIN clean :
          i < j /\ clean[i][1] = clean[j][1] /\ clean[i][2] # clean[j][2]
    /\ clean # DedupeRows(expanded, {})
    /\ \E p \in Perms(expanded) : p # expanded /\ ReconcileExpanded(p) = clean

(***************************************************************************)
(* The pairing rule, written from its statement                            *)
(***************************************************************************)
Max(a, b) == IF a > b THEN a ELSE b

ResolvedNames(fields) ==
    OrList(listify(fields.course_name), listify(fields.course_name_rollup))

ResolvedCodes(fields) ==
    OrList(listify(fields.course_code), listify(fields.course_code_rollup))

\* the i-th element, the only element of a one-element list, or nothing
Pick(l, i) ==
    IF Len(l) = 1 THEN l[1] ELSE IF i \in DOMAIN l THEN l[i] ELSE <<>>

\* equal lengths pair by position; exactly one single element is
\* broadcast, max(n, c) pairs; otherwise min(n, c) pairs
StatedPairs(names, codes) ==
    LET n == Len(names)
        c == Len(codes)
        k == IF n = c THEN n
             ELSE IF (n = 1) # (c = 1) THEN Max(n, c)
             ELSE Min(n, c)
    IN  [i \in 1..k |-> <<Pick(names, i), Pick(codes, i)>>]

\* as StatedPairs, except that an empty list against a non-empty one is
\* filled with empty strings to the other's length
FilledPairs(names, codes) ==
    IF (names = <<>>) # (codes = <<>>)
    THEN [i \in 1..Max(Len(names), Len(codes)) |->
             <<Pick(names, i), Pick(codes, i)>>]
    ELSE StatedPairs(names, codes)

\* the course rows of one source row are these pairs, in order, each with
\* a name or a code and with the source row's letter grade and percent
RowsCarry(got, pairs, fields) ==
    /\ Len(got) = Len(pairs)
    /\ \A i \in DOMAIN got :
          /\ i \in DOMAIN pairs
          /\ got[i][1] = pairs[i][1] /\ got[i][2] = pairs[i][2]
          /\ got[i][1] # <<>> \/ got[i][2] # <<>>
          /\ got[i][4] = LetterOrDash(strip(sget(fields.letter)))
          /\ got[i][5] = fmt_percent(fields.current_score)

(***************************************************************************)
(* C13 as stated: for resolved name and code lists of lengths n and c the  *)
(* expander pairs by position when n = c, broadcasts the single element    *)
(* when the lengths differ and exactly one list has one element (max(n, c) *)
(* rows), and otherwise truncates both lists to min(n, c); every row has a *)
(* name or a code and carries the source row's letter grade and percent.   *)
(***************************************************************************)
C13_PairingRule ==
    rIdx = 2 =>
        RowsCarry(expanded,
                  StatedPairs(ResolvedNames(srcRows[1].fields),
                              ResolvedCodes(srcRows[1].fields)),
                  srcRows[1].fields)

(***************************************************************************)
(* C13 amended: as stated for two non-empty lists; when exactly one of the *)
(* two lists is empty it is filled with empty strings to the length of the *)
(* other, so the row count is max(n, c), not min(n, c) = 0; when both are  *)
(* empty there is no row. A row without a letter grade shows a dash.       *)
(***************************************************************************)
C13_PairingRuleWithBlankFill ==
    rIdx = 2 =>
        RowsCarry(expanded,
                  FilledPairs(ResolvedNames(srcRows[1].fields),
                              ResolvedCodes(srcRows[1].fields)),
                  srcRows[1].fields)

\* a source row with no course name and two codes expands to two rows
\* whose name is empty
C13_Witness ==
    /\ rIdx = 2
    /\ ResolvedNames(srcRows[1].fields) = <<>>
    /\ ResolvedCodes(srcRows[1].fields) = <<sART1, sART2>>
    /\ Len(expanded) = 2
    /\ expanded[1][1] = <<>> /\ expanded[1][2] = sART1
    /\ expanded[2][1] = <<>> /\ expanded[2][2] = sART2

====
